---- MODULE Spec2Model ----
(***************************************************************************)
(* HotManager SaaS (src/main.py): the webhook receiver, the background     *)
(* task procesar_evento_hotmart that normalises an event into a LeadDB row *)
(* and commits it, and the read API get_leads, from the start-up that      *)
(* resolves DATABASE_URL into the engine.  The document store that the     *)
(* specification describes next to the relational one is not part of       *)
(* src/main.py; it is modelled from the specification's sections 4.3, 5.   *)
(*                                                                         *)
(* Numbers are held in tenths (99.9 is 999), so that a Float column and    *)
(* Python's float() stay inside the integers.                              *)
(***************************************************************************)
EXTENDS Integers, Sequences, FiniteSets, TLC

VARIABLES
    reqs,      \* the webhook requests received so far, in arrival order
    table,     \* the committed rows of table "leads", in commit order
    nextId,    \* the next value of the autoincrementing primary key
    sessions,  \* the open SessionLocal() sessions: the engine each is bound to
    clock,     \* datetime.utcnow()
    leads,     \* the body of the last answer of GET /api/leads
    environ,   \* os.environ.get("DATABASE_URL") when the process started
    engine,    \* the engine created at startup
    reader,    \* where a GET /api/leads in progress is, "idle" when none is
    file       \* the document of the file store and the append calls on it

startup == <<environ, engine>>

vars == <<reqs, table, nextId, sessions, clock, leads, startup, reader, file>>

\* ---------------------------------------------------------------- bounds
MaxReq == 2        \* webhook requests per behaviour
MaxClock == 1      \* clock ticks per behaviour
PriorRows == 100   \* rows already in the table when the process starts
MaxCalls == 2      \* append calls on the file store per behaviour

\* ------------------------------------------------------------- constants
PageSize == 100    \* .limit(100) of get_leads

\* --------------------------------------------------------------- strings
\* Text that the code parses is a sequence of one-character strings; text
\* it only copies or compares is a TLA+ string.
Digits == {"0", "1", "2", "3", "4", "5", "6", "7", "8", "9"}

DigitVal(c) ==
    CASE c = "0" -> 0 [] c = "1" -> 1 [] c = "2" -> 2 [] c = "3" -> 3
      [] c = "4" -> 4 [] c = "5" -> 5 [] c = "6" -> 6 [] c = "7" -> 7
      [] c = "8" -> 8 [] c = "9" -> 9

IsDigits(cs) == \A i \in 1..Len(cs) : cs[i] \in Digits

RECURSIVE NatVal(_)
NatVal(cs) ==
    IF cs = <<>> THEN 0
    ELSE 10 * NatVal(SubSeq(cs, 1, Len(cs) - 1)) + DigitVal(cs[Len(cs)])

\* str.strip(): leading and trailing blanks removed.
RECURSIVE Strip(_)
Strip(cs) ==
    IF cs = <<>> THEN <<>>
    ELSE IF Head(cs) = " " THEN Strip(Tail(cs))
    ELSE IF cs[Len(cs)] = " " THEN Strip(SubSeq(cs, 1, Len(cs) - 1))
    ELSE cs

DotAt(cs) == {i \in 1..Len(cs) : cs[i] = "."}
IntPart(cs) == IF DotAt(cs) = {} THEN cs
               ELSE SubSeq(cs, 1, (CHOOSE i \in DotAt(cs) : TRUE) - 1)
FracPart(cs) == IF DotAt(cs) = {} THEN <<>>
                ELSE SubSeq(cs, (CHOOSE i \in DotAt(cs) : TRUE) + 1, Len(cs))

\* The value of digits [. digits] in tenths; digits after the first
\* fractional one are below the resolution of the model.
TenthsOf(cs) ==
    10 * NatVal(IntPart(cs))
    + (IF FracPart(cs) = <<>> THEN 0 ELSE DigitVal(FracPart(cs)[1]))

\* The unsigned decimal literals float() accepts once stripped:
\* "12", "12.", "12.5", ".5" (no sign, no exponent in the model's alphabet).
IsFloatLiteral(cs) ==
    /\ Cardinality(DotAt(cs)) <= 1
    /\ IsDigits(IntPart(cs)) /\ IsDigits(FracPart(cs))
    /\ Len(IntPart(cs)) + Len(FracPart(cs)) >= 1

\* The unsigned number literals of JSON: "0", "12", "12.5"; neither "12."
\* nor ".5" nor "012".
IsJsonNumber(cs) ==
    /\ Cardinality(DotAt(cs)) <= 1
    /\ IntPart(cs) # <<>> /\ IsDigits(IntPart(cs))
    /\ (Len(IntPart(cs)) > 1 => IntPart(cs)[1] # "0")
    /\ IsDigits(FracPart(cs))
    /\ (DotAt(cs) # {} => FracPart(cs) # <<>>)

JsonNull == <<"n", "u", "l", "l">>

\* ---------------------------------------------------------- request body
\* A request body as it arrives: its container syntax (kind) and the text
\* of each field.  A field that is only copied is [p, s]: present or not,
\* and its text.  The value field is [t, cs]: absent, a bare token (99.9,
\* null, abc) or a quoted one ("99.9"), and its characters.
Absent == [p |-> FALSE, s |-> ""]
Str(s) == [p |-> TRUE, s |-> s]

NoValue == [t |-> "absent", cs |-> <<>>]
Bare(cs) == [t |-> "bare", cs |-> cs]
Quoted(cs) == [t |-> "quoted", cs |-> cs]

Body(kind, ev, nm, em, pr, ph, val) ==
    [kind |-> kind, event |-> ev, name_client |-> nm, email_client |-> em,
     prod_name |-> pr, phone_number |-> ph, value |-> val]

\* kind: "json_object"           {"event": ..., ...}
\*       "json_array"            [ ... ]: JSON, but no mapping
\*       "urlencoded"            event=...&value=...
\*       "multipart_noboundary"  Content-Type multipart/form-data without
\*                               a boundary, body not JSON
\*       "text"                  neither JSON nor a form

\* -------------------------------------------------------- decoded payload
\* The dict handed to the background task.  Decoded values: [t, n, cs] with
\* t one of "absent", "num" (n, in tenths), "str" (cs), "null".
PAbsent == [t |-> "absent", n |-> 0, cs |-> <<>>]
PNum(n) == [t |-> "num", n |-> n, cs |-> <<>>]
PStr(cs) == [t |-> "str", n |-> 0, cs |-> cs]
PNull == [t |-> "null", n |-> 0, cs |-> <<>>]

Payload(isdict, ev, nm, em, pr, ph, val) ==
    [isdict |-> isdict, event |-> ev, name_client |-> nm,
     email_client |-> em, prod_name |-> pr, phone_number |-> ph,
     value |-> val]

EmptyDict == Payload(TRUE, Absent, Absent, Absent, Absent, Absent, PAbsent)
NotADict == Payload(FALSE, Absent, Absent, Absent, Absent, Absent, PAbsent)

\* await request.json(): json.loads of the body, whatever the content type.
\* It raises unless the body is a JSON document.
JsonRaises(b) ==
    \/ b.kind \notin {"json_object", "json_array"}
    \/ /\ b.kind = "json_object"
       /\ b.value.t = "bare"
       /\ ~IsJsonNumber(b.value.cs)
       /\ b.value.cs # JsonNull

JsonValue(v) ==
    CASE v.t = "absent" -> PAbsent
      [] v.t = "quoted" -> PStr(v.cs)
      [] v.t = "bare" /\ v.cs = JsonNull -> PNull
      [] OTHER -> PNum(TenthsOf(v.cs))

request_json(b) ==
    IF b.kind = "json_array" THEN NotADict
    ELSE Payload(TRUE, b.event, b.name_client, b.email_client, b.prod_name,
                 b.phone_number, JsonValue(b.value))

\* await request.form(): the form parser chosen by the content type.  A
\* multipart body without boundary makes the parser raise; a content type
\* that is no form yields an empty form.
FormRaises(b) == b.kind = "multipart_noboundary"

\* Every form value is a string; quotes are ordinary characters of it.
FormValue(v) ==
    CASE v.t = "absent" -> PAbsent
      [] v.t = "bare" -> PStr(v.cs)
      [] v.t = "quoted" -> PStr(<<"'">> \o v.cs \o <<"'">>)

request_form(b) ==
    IF b.kind = "urlencoded"
    THEN Payload(TRUE, b.event, b.name_client, b.email_client, b.prod_name,
                 b.phone_number, FormValue(b.value))
    ELSE EmptyDict

\* ------------------------------------------------------------- responses
Ack == [status |-> "recibido", message |-> "Procesando en segundo plano"]
ErrorResponse == [status |-> "error", message |-> "request.form() raised"]
NoResponse == [status |-> "", message |-> ""]

\* ------------------------------------------------------------ LeadDB rows
\* phone is <<>> for NULL and <<s>> for the string s.  req is auxiliary: the
\* index in reqs of the request whose task committed the row (0 for a row
\* that was in the table before the process started).
LeadDB(id, type, name, email, product, price, phone, status, saved_at, req) ==
    [id |-> id, type |-> type, name |-> name, email |-> email,
     product |-> product, price |-> price, phone |-> phone,
     status |-> status, saved_at |-> saved_at, req |-> req]

NoLead == LeadDB(0, "", "", "", "", 0, <<>>, "", 0, 0)

\* dict.get(key, default) of a field that is only copied.
Get(f, default) == IF f.p THEN f.s ELSE default

\* float(x): a number as it is, a string parsed after stripping blanks;
\* None and a string that is no number raise.
FloatRaises(v) ==
    \/ v.t = "null"
    \/ v.t = "str" /\ ~IsFloatLiteral(Strip(v.cs))

Float(v) ==
    CASE v.t = "num" -> v.n
      [] v.t = "str" -> TenthsOf(Strip(v.cs))

\* Faulty variant: only a number is taken, a string counts as 0.0.
SalePriceNumbersOnly(data) ==
    IF data.value.t = "num" THEN data.value.n ELSE 0

\* float(data.get("value", 0.0))
SalePrice(data) ==
    IF data.value.t = "absent" THEN 0 ELSE Float(data.value)

\* Faulty variant: the abandonment keeps the payload's value.
AbandonPriceFromValue(data) ==
    IF data.value.t = "absent" \/ FloatRaises(data.value) THEN 0
    ELSE Float(data.value)

\* new_lead.price = 0.0
AbandonPrice(data) == 0

SaleEvents == {"PURCHASE_APPROVED", "PURCHASE_COMPLETE", "APPROVED"}
AbandonEvent == "CART_ABANDONMENT"

\* Faulty variant: the event name is matched whatever its letter case.
Upper(s) ==
    CASE s = "purchase_approved" -> "PURCHASE_APPROVED"
      [] s = "Cart_Abandonment" -> "CART_ABANDONMENT"
      [] OTHER -> s
IsSaleAnyCase(data) == data.event.p /\ Upper(data.event.s) \in SaleEvents

IsSale(data) == data.event.p /\ data.event.s \in SaleEvents
IsAbandon(data) == data.event.p /\ data.event.s = AbandonEvent

\* Faulty variant: name and email are read from each other's key.
new_lead_swapped(data, now, req) ==
    LeadDB(0, "", Get(data.email_client, "Desconocido"),
           Get(data.name_client, "no-email"),
           Get(data.prod_name, "Producto"),
           0, IF data.phone_number.p THEN <<data.phone_number.s>> ELSE <<>>,
           "", now, req)

\* Faulty variant: saved_at is a time taken once, when the module was
\* loaded.
new_lead_import_time(data, now, req) ==
    LeadDB(0, "", Get(data.name_client, "Desconocido"),
           Get(data.email_client, "no-email"),
           Get(data.prod_name, "Producto"),
           0, IF data.phone_number.p THEN <<data.phone_number.s>> ELSE <<>>,
           "", 0, req)

\* new_lead = LeadDB(name=..., email=..., product=..., phone=..., saved_at=...)
new_lead(data, now, req) ==
    LeadDB(0, "", Get(data.name_client, "Desconocido"),
           Get(data.email_client, "no-email"),
           Get(data.prod_name, "Producto"),
           0, IF data.phone_number.p THEN <<data.phone_number.s>> ELSE <<>>,
           "", now, req)

\* Faulty variant: the name is read with data["name_client"].
BuildRaisesKeyError(data) ==
    \/ ~data.isdict
    \/ ~data.name_client.p
    \/ IsSale(data) /\ data.value.t # "absent" /\ FloatRaises(data.value)

\* The try block up to db.add: what it raises, and the lead it has built.
\* data.get raises on a payload that is no dict; float() raises inside the
\* SALE branch only.
BuildRaises(data) ==
    \/ ~data.isdict
    \/ IsSale(data) /\ data.value.t # "absent" /\ FloatRaises(data.value)

SaleLead(data, now, req) ==
    [new_lead(data, now, req) EXCEPT
        !.type = "SALE", !.status = "approved", !.price = SalePrice(data)]

\* Faulty variant: the abandonment branch keeps the status of a sale.
AbandonLeadApproved(data, now, req) ==
    [new_lead(data, now, req) EXCEPT
        !.type = "ABANDONMENT", !.status = "approved",
        !.price = AbandonPrice(data)]

AbandonLead(data, now, req) ==
    [new_lead(data, now, req) EXCEPT
        !.type = "ABANDONMENT", !.status = "abandoned",
        !.price = AbandonPrice(data)]

\* --------------------------------------------------------------- requests
\* ret: how handle_webhook ended, "ack" (it returned) or "raise".
\* resp: the response sent, NoResponse before it is sent.
\* pc: where the background task is: "none" (no task was added), "pending",
\*     "ready" (session open, lead built), "skip" (session open, event not
\*     recognized), "except" (session open, exception caught), "committed"
\*     (session open, row committed), "done" (session closed).
\* out: how the task ended: "stored", "discarded" or "error".
\* fault: auxiliary, db.add or db.commit raised.
Request(body, payload, ret) ==
    [body |-> body, payload |-> payload, ret |-> ret, resp |-> NoResponse,
     pc |-> IF ret = "ack" THEN "pending" ELSE "none",
     out |-> "", lead |-> NoLead, fault |-> FALSE]

Reqs == 1..Len(reqs)

\* ---------------------------------------------------------------- startup
\* A connection string is its scheme (the text before "://") and the rest.
\* The environment variable is unset (None) or holds a string, which may
\* be empty.
Url(scheme, rest) == [scheme |-> scheme, rest |-> rest]
EnvNone == <<>>
EnvStr(u) == <<u>>
EmptyStr == Url("", "")
LocalSqlite == Url("sqlite", "/./prueba_local.db")

\* Faulty variant: the legacy scheme is handed to the driver as it came.
ResolveNoRewrite(env) ==
    IF env = EnvNone \/ env[1] = EmptyStr THEN LocalSqlite ELSE env[1]

\* DATABASE_URL after lines 34-43: the local SQLite file when the variable
\* is unset or empty, "postgres://" rewritten to "postgresql://".
ResolveUrl(env) ==
    IF env = EnvNone \/ env[1] = EmptyStr
    THEN LocalSqlite
    ELSE IF env[1].scheme = "postgres"
         THEN Url("postgresql", env[1].rest)
         ELSE env[1]

\* create_engine(DATABASE_URL): an SQLAlchemy engine, whose dialect is named
\* by the scheme.  Every engine is a relational (SQL) backend; the module
\* has no other kind of store.
create_engine(url) ==
    [kind |-> "relational", dialect |-> url.scheme, url |-> url]

\* Faulty variant: one session of the module is shared by every caller.
SessionLocalShared(owner) == [owner |-> 0, bind |-> engine]

\* SessionLocal = sessionmaker(bind=engine); SessionLocal() in the task of
\* request i, or in get_db for a GET (owner 0).
SessionLocal(owner) == [owner |-> owner, bind |-> engine]

\* ----------------------------------------------------------- the backend
\* Faulty variant: the key is taken from the clock.
NewIdFromClock == clock + 1

\* id = Column(Integer, primary_key=True): the backend's next key.
NewId == nextId

\* ORDER BY saved_at DESC.  SQL leaves the order of rows with equal
\* saved_at open; tie chooses it: by id ascending or by id descending.
TieOrders == {"asc", "desc"}

Before(y, x, tie) ==
    \/ y.saved_at > x.saved_at
    \/ /\ y.saved_at = x.saved_at
       /\ IF tie = "asc" THEN y.id < x.id ELSE y.id > x.id

\* Faulty variant: the query has no order_by.
OrderByInsertion(rows, tie) == rows

OrderBySavedAtDesc(rows, tie) ==
    SortSeq(rows, LAMBDA y, x : Before(y, x, tie))

Limit(rows, n) == SubSeq(rows, 1, IF Len(rows) < n THEN Len(rows) ELSE n)

\* db.query(LeadDB).order_by(LeadDB.saved_at.desc()).limit(100).all()
Query(rows, tie) == Limit(OrderBySavedAtDesc(rows, tie), PageSize)

\* ---------------------------------------------------------------- actions
\* handle_webhook: decode the body (JSON first, the form on any failure),
\* add the background task, return the acknowledgment.  An exception of
\* request.form() is raised inside the except clause and leaves the handler.
Decode(b) ==
    IF ~JsonRaises(b) THEN Request(b, request_json(b), "ack")
    ELSE IF ~FormRaises(b) THEN Request(b, request_form(b), "ack")
    ELSE Request(b, EmptyDict, "raise")

handle_webhook(b) ==
    /\ Len(reqs) < MaxReq
    /\ reqs' = Append(reqs, Decode(b))
    /\ UNCHANGED <<table, nextId, sessions, clock, leads, startup, reader, file>>

\* The framework sends the handler's return value, or the error response of
\* an exception that left the handler.
send_response(i) ==
    /\ reqs[i].resp = NoResponse
    /\ reqs' = [reqs EXCEPT
                  ![i].resp = IF reqs[i].ret = "ack" THEN Ack ELSE ErrorResponse]
    /\ UNCHANGED <<table, nextId, sessions, clock, leads, startup, reader, file>>

\* Faulty variant: the task is called in the handler instead of being added.
TaskMayStartInline(r) == TRUE

\* background_tasks.add_task: the task runs once the response has been sent.
TaskMayStart(r) == r.resp = Ack

\* procesar_evento_hotmart, from SessionLocal() to the statement before
\* db.add: the session is opened, the lead is built and classified.
task_start(i) ==
    /\ reqs[i].pc = "pending"
    /\ TaskMayStart(reqs[i])
    /\ sessions' = sessions \cup {SessionLocal(i)}
    /\ LET data == reqs[i].payload IN
       reqs' = [reqs EXCEPT ![i] =
          IF BuildRaises(data)
          THEN [@ EXCEPT !.pc = "except", !.out = "error"]
          ELSE IF IsSale(data)
          THEN [@ EXCEPT !.pc = "ready", !.lead = SaleLead(data, clock, i)]
          ELSE IF IsAbandon(data)
          THEN [@ EXCEPT !.pc = "ready", !.lead = AbandonLead(data, clock, i)]
          ELSE [@ EXCEPT !.pc = "skip", !.out = "discarded"]]
    /\ UNCHANGED <<table, nextId, clock, leads, startup, reader, file>>

\* Faulty variant: the row is merged over the newest row of the table.
task_commit_merge(i) ==
    /\ reqs[i].pc = "ready"
    /\ table' = IF table = <<>>
                THEN <<[reqs[i].lead EXCEPT !.id = NewId]>>
                ELSE [table EXCEPT ![Len(table)] =
                         [reqs[i].lead EXCEPT !.id = table[Len(table)].id]]
    /\ nextId' = nextId + 1
    /\ reqs' = [reqs EXCEPT ![i].pc = "committed", ![i].out = "stored"]
    /\ UNCHANGED <<sessions, clock, leads, startup, reader, file>>

\* Faulty variant: an insert made while another task has its session open
\* is lost without an error.
task_commit_contended(i) ==
    /\ reqs[i].pc = "ready"
    /\ IF \E s \in sessions : s.owner \notin {0, i}
       THEN UNCHANGED <<table, nextId>>
       ELSE /\ table' = Append(table, [reqs[i].lead EXCEPT !.id = NewId])
            /\ nextId' = nextId + 1
    /\ reqs' = [reqs EXCEPT ![i].pc = "committed", ![i].out = "stored"]
    /\ UNCHANGED <<sessions, clock, leads, startup, reader, file>>

\* Faulty variant: the lead is added in both branches, one after the other.
task_commit_twice(i) ==
    /\ reqs[i].pc = "ready"
    /\ table' = table \o <<[reqs[i].lead EXCEPT !.id = NewId],
                            [reqs[i].lead EXCEPT !.id = NewId + 1]>>
    /\ nextId' = nextId + 2
    /\ reqs' = [reqs EXCEPT ![i].pc = "committed", ![i].out = "stored"]
    /\ UNCHANGED <<sessions, clock, leads, startup, reader, file>>

\* db.add(new_lead); db.commit(): one row is inserted under a fresh key.
task_commit(i) ==
    /\ reqs[i].pc = "ready"
    /\ table' = Append(table, [reqs[i].lead EXCEPT !.id = NewId])
    /\ nextId' = nextId + 1
    /\ reqs' = [reqs EXCEPT ![i].pc = "committed", ![i].out = "stored"]
    /\ UNCHANGED <<sessions, clock, leads, startup, reader, file>>

\* Faulty variant: the row is written before the commit raises.
task_fault_after_insert(i) ==
    /\ reqs[i].pc = "ready"
    /\ table' = Append(table, [reqs[i].lead EXCEPT !.id = NewId])
    /\ nextId' = nextId + 1
    /\ reqs' = [reqs EXCEPT ![i].pc = "except", ![i].out = "error",
                            ![i].fault = TRUE]
    /\ UNCHANGED <<sessions, clock, leads, startup, reader, file>>

\* db.add or db.commit raises (connection lost, constraint, serialization):
\* nothing is inserted and the except clause logs the error.
task_fault(i) ==
    /\ reqs[i].pc = "ready"
    /\ reqs' = [reqs EXCEPT ![i].pc = "except", ![i].out = "error",
                            ![i].fault = TRUE]
    /\ UNCHANGED <<table, nextId, sessions, clock, leads, startup, reader, file>>

\* finally: db.close()
task_close(i) ==
    /\ reqs[i].pc \in {"skip", "except", "committed"}
    /\ sessions' = {s \in sessions : s.owner # i}
    /\ reqs' = [reqs EXCEPT ![i].pc = "done"]
    /\ UNCHANGED <<table, nextId, clock, leads, startup, reader, file>>

\* get_leads, with the session of get_db opened before and closed after it,
\* as one step: what a GET reads and answers.
get_leads ==
    /\ \E tie \in TieOrders : leads' = Query(table, tie)
    /\ UNCHANGED <<reqs, table, nextId, sessions, clock, startup, reader, file>>

\* The same GET in the three steps it takes.  get_db up to its yield: the
\* session of the request is opened.
get_db_open ==
    /\ reader = "idle"
    /\ reader' = "open"
    /\ sessions' = sessions \cup {SessionLocal(0)}
    /\ UNCHANGED <<reqs, table, nextId, clock, leads, startup, file>>

\* The body of get_leads: the query runs on the session of get_db.
get_leads_query ==
    /\ reader = "open"
    /\ reader' = "queried"
    /\ \E tie \in TieOrders : leads' = Query(table, tie)
    /\ UNCHANGED <<reqs, table, nextId, sessions, clock, startup, file>>

\* get_db after its yield: finally: db.close()
get_db_close ==
    /\ reader = "queried"
    /\ reader' = "idle"
    /\ sessions' = {s \in sessions : s.owner # 0}
    /\ UNCHANGED <<reqs, table, nextId, clock, leads, startup, file>>

\* Time passes.
Tick ==
    /\ clock < MaxClock
    /\ clock' = clock + 1
    /\ UNCHANGED <<reqs, table, nextId, sessions, leads, startup, reader, file>>

\* --------------------------------------------------------- the file store
\* The document store of the specification (sections 4.3 and 5): one
\* document holding the sequence of records, newest first, read and
\* rewritten whole by every append, with no lock.
\* file.doc, file.valid: the stored sequence, and whether the document
\*     exists and parses.
\* file.calls: the append calls issued so far; pc is "read" (nothing done
\*     yet), "write" (document read into mem) or "done"; rec is the record
\*     the call has written.
\* file.page: the last answer of list.
\* file.sequential: auxiliary, no call was issued while another was running.
ReadDocument(f) == IF f.valid THEN f.doc ELSE <<>>

\* Faulty variant: the new record is added at the tail.
InsertAtTail(rec, mem) == Append(mem, rec)

\* The new record is inserted at the head of the in-memory sequence.
InsertAtHead(rec, mem) == <<rec>> \o mem

\* Faulty variant: the document is read again at the moment of the write.
InMemoryFresh(c) == ReadDocument(file)

\* The sequence the call holds in memory since its read.
InMemory(c) == file.calls[c].mem

\* The id of a new record is the current time in milliseconds.
FileId == clock

FileRecord(lead, c) == [lead EXCEPT !.id = FileId, !.saved_at = clock, !.req = c]

\* list(limit): up to limit records from the head of the stored sequence,
\* none when the document cannot be read.
FileList(f, limit) == Limit(ReadDocument(f), limit)

FileRunning == {c \in 1..Len(file.calls) : file.calls[c].pc # "done"}

\* append is called with a lead.
FileStore_append(lead) ==
    /\ Len(file.calls) < MaxCalls
    /\ file' = [file EXCEPT
                  !.calls = Append(@, [lead |-> lead, pc |-> "read",
                                       mem |-> <<>>, rec |-> NoLead]),
                  !.sequential = @ /\ FileRunning = {}]
    /\ UNCHANGED <<reqs, table, nextId, sessions, clock, leads, startup, reader>>

\* append reads the whole document; a document that is missing or invalid
\* reads as the empty sequence.
FileStore_append_read(c) ==
    /\ file.calls[c].pc = "read"
    /\ file' = [file EXCEPT
                  !.calls[c].pc = "write",
                  !.calls[c].mem = ReadDocument(file)]
    /\ UNCHANGED <<reqs, table, nextId, sessions, clock, leads, startup, reader>>

\* append overwrites the whole document with the new record ahead of the
\* sequence it holds in memory.
FileStore_append_write(c) ==
    /\ file.calls[c].pc = "write"
    /\ LET rec == FileRecord(file.calls[c].lead, c) IN
       file' = [file EXCEPT
                  !.doc = InsertAtHead(rec, InMemory(c)),
                  !.valid = TRUE,
                  !.calls[c].pc = "done",
                  !.calls[c].rec = rec]
    /\ UNCHANGED <<reqs, table, nextId, sessions, clock, leads, startup, reader>>

FileStore_list(limit) ==
    /\ file' = [file EXCEPT !.page = FileList(file, limit)]
    /\ UNCHANGED <<reqs, table, nextId, sessions, clock, leads, startup, reader>>

\* ----------------------------------------------------------------- inputs
V999 == <<"9", "9", ".", "9">>
V0 == <<"0">>
V12 == <<" ", "1", "2", " ">>
VAbc == <<"a", "b", "c">>

\* Scenario A of the specification.
ScenarioA ==
    Body("json_object", Str("PURCHASE_APPROVED"), Str("Ana"), Str("a@x.com"),
         Str("Course"), Absent, Bare(V999))
\* Scenario B, with a value the task must ignore.
ScenarioB ==
    Body("json_object", Str("CART_ABANDONMENT"), Str("Luis"), Absent, Absent,
         Absent, Bare(V999))
\* Scenario C.
ScenarioC ==
    Body("json_object", Str("SOMETHING_ELSE"), Absent, Absent, Absent, Absent,
         NoValue)
FormSale ==
    Body("urlencoded", Str("APPROVED"), Str("Eva"), Str("e@x.com"),
         Str("Book"), Str("555"), Bare(V999))
BrokenForm ==
    Body("multipart_noboundary", Absent, Absent, Absent, Absent, Absent,
         NoValue)

\* The bodies of the concurrent specification.
CoreBodies == {ScenarioA, ScenarioB, ScenarioC, FormSale, BrokenForm}

EventNames == {"PURCHASE_APPROVED", "PURCHASE_COMPLETE", "APPROVED",
               "CART_ABANDONMENT", "SOMETHING_ELSE", "purchase_approved",
               "Cart_Abandonment"}
Events == {Absent} \cup {Str(e) : e \in EventNames}
Values == {NoValue, Bare(V999), Bare(V0), Bare(JsonNull), Bare(VAbc),
           Quoted(V999), Quoted(V12), Quoted(VAbc), Quoted(<<>>)}
Opt(s) == {Absent, Str(s)}

\* The bodies of the sequential specification: every event with every
\* value, every subset of the optional fields, every container.
AllBodies ==
    {Body("json_object", ev, Str("Ana"), Str("a@x.com"), Str("Course"),
          Absent, val) : ev \in Events, val \in Values}
    \cup
    {Body("json_object", ev, nm, em, pr, ph, Bare(V999)) :
        ev \in {Str("APPROVED"), Str("CART_ABANDONMENT")},
        nm \in Opt("Ana"), em \in Opt("a@x.com"), pr \in Opt("Course"),
        ph \in Opt("555")}
    \cup
    {Body("urlencoded", ev, Str("Eva"), Absent, Str("Book"), Str("555"), val) :
        ev \in {Str("PURCHASE_COMPLETE"), Str("CART_ABANDONMENT")},
        val \in {NoValue, Bare(V999), Bare(VAbc), Quoted(V999)}}
    \cup
    {Body(k, Str("APPROVED"), Str("Ana"), Absent, Absent, Absent, Bare(V0)) :
        k \in {"json_array", "multipart_noboundary", "text"}}

\* The bodies of the paging specification.
PageBodies == {ScenarioA, ScenarioB}

\* ------------------------------------------------------------------- Init
\* The rows of an earlier run of the process: PriorRows sales, the oldest
\* two saved in the same instant, all saved before this run's clock starts.
PriorTable ==
    [i \in 1..PriorRows |->
        LeadDB(i, "SALE", "Prior", "p@x.com", "Course", 10, <<>>, "approved",
               (IF i = 1 THEN 2 ELSE i) - PriorRows - 1, 0)]

\* A file store that has served no call yet.
StoredFile(doc, valid) ==
    [doc |-> doc, valid |-> valid, calls |-> <<>>, page |-> <<>>,
     sequential |-> TRUE]

\* No document is stored.
NoFile == StoredFile(<<>>, FALSE)

\* The documents a run may find: none, an invalid one, an empty sequence,
\* the records of an earlier run.
StoredFiles ==
    {NoFile, StoredFile(Limit(PriorTable, 2), FALSE), StoredFile(<<>>, TRUE),
     StoredFile(Limit(PriorTable, 1), TRUE), StoredFile(Limit(PriorTable, 2), TRUE)}

\* The leads handed to the file store.
FileLeads ==
    {SaleLead(request_json(ScenarioA), 0, 0),
     AbandonLead(request_json(ScenarioB), 0, 0)}

\* The process has started with env as its DATABASE_URL variable and f as
\* its file store.
Started(env, rows, f) ==
    /\ reqs = <<>>
    /\ table = rows
    /\ nextId = Len(rows) + 1
    /\ sessions = {}
    /\ clock = 0
    /\ leads = <<>>
    /\ environ = env
    /\ engine = create_engine(ResolveUrl(env))
    /\ reader = "idle"
    /\ file = f

\* A local run: DATABASE_URL is not set.
InitWith(rows) == Started(EnvNone, rows, NoFile)

Init == InitWith(<<>>)
InitSeq == InitWith(Limit(PriorTable, 1))
InitPage == InitWith(PriorTable)

\* ------------------------------------------------------------------- Next
MaxSeqReq == 1      \* requests per behaviour of the sequential specification
MaxPageReq == 1     \* requests per behaviour of the paging specification
MaxProcReq == 1     \* requests per behaviour of the start-up specification

\* Every task has ended and every response has been sent.
Quiet ==
    \A i \in Reqs : reqs[i].resp # NoResponse /\ reqs[i].pc \in {"none", "done"}

\* Concurrent requests, tasks and reads over the core bodies.
Next ==
    \/ \E b \in CoreBodies : handle_webhook(b)
    \/ \E i \in Reqs : send_response(i)
    \/ \E i \in Reqs : task_start(i)
    \/ \E i \in Reqs : task_commit(i)
    \/ \E i \in Reqs : task_fault(i)
    \/ \E i \in Reqs : task_close(i)
    \/ get_leads
    \/ Tick

Spec == Init /\ [][Next]_vars

\* The normalisation alone: one request at a time, over all the bodies,
\* against a backend that does not fail.
NextSeq ==
    \/ Quiet /\ Len(reqs) < MaxSeqReq /\ \E b \in AllBodies : handle_webhook(b)
    \/ \E i \in Reqs : send_response(i)
    \/ \E i \in Reqs : task_start(i)
    \/ \E i \in Reqs : task_commit(i)
    \/ \E i \in Reqs : task_close(i)

SpecSeq == InitSeq /\ [][NextSeq]_vars

\* A table that already holds PriorRows rows.
NextPage ==
    \/ Len(reqs) < MaxPageReq /\ \E b \in PageBodies : handle_webhook(b)
    \/ \E i \in Reqs : send_response(i)
    \/ \E i \in Reqs : task_start(i)
    \/ \E i \in Reqs : task_commit(i)
    \/ \E i \in Reqs : task_fault(i)
    \/ \E i \in Reqs : task_close(i)
    \/ get_leads
    \/ Tick

SpecPage == InitPage /\ [][NextPage]_vars

\* The values of DATABASE_URL a process may start with: unset, empty, the
\* legacy scheme, the scheme the driver accepts, another SQLite file.
Environs ==
    {EnvNone, EnvStr(EmptyStr), EnvStr(Url("postgres", "u@h/db")),
     EnvStr(Url("postgresql", "u@h/db")), EnvStr(Url("sqlite", "/./other.db"))}

\* The process from its start-up, under every configuration, with the
\* steps of a GET /api/leads apart.
InitProc == \E env \in Environs : Started(env, <<>>, NoFile)

NextProc ==
    \/ Len(reqs) < MaxProcReq /\ \E b \in CoreBodies : handle_webhook(b)
    \/ \E i \in Reqs : send_response(i)
    \/ \E i \in Reqs : task_start(i)
    \/ \E i \in Reqs : task_commit(i)
    \/ \E i \in Reqs : task_fault(i)
    \/ \E i \in Reqs : task_close(i)
    \/ get_db_open
    \/ get_leads_query
    \/ get_db_close

SpecProc == InitProc /\ [][NextProc]_vars

\* The file store alone: append calls that may overlap, and list.
InitFile == \E f \in StoredFiles : Started(EnvNone, <<>>, f)

NextFile ==
    \/ \E lead \in FileLeads : FileStore_append(lead)
    \/ \E c \in 1..Len(file.calls) : FileStore_append_read(c)
    \/ \E c \in 1..Len(file.calls) : FileStore_append_write(c)
    \/ \E limit \in 1..MaxCalls : FileStore_list(limit)
    \/ Tick

SpecFile == InitFile /\ [][NextFile]_vars

\* ================================================================ claims
RowsOf(i) == {k \in 1..Len(table) : table[k].req = i}
TaskRan(r) == r.pc \notin {"none", "pending"}

\* C1: the acknowledgment of a request is sent before its background task
\* starts: whenever the task of a request has opened its session, built its
\* lead, committed or closed, that request's response is the acknowledgment,
\* and every committed row belongs to an acknowledged request.
C1_AckBeforeTask ==
    /\ \A i \in Reqs : TaskRan(reqs[i]) => reqs[i].resp = Ack
    /\ \A k \in 1..Len(table) :
          table[k].req > 0 => reqs[table[k].req].resp = Ack

C1_Witness ==
    \E i \in Reqs :
        /\ reqs[i].pc = "committed" /\ reqs[i].resp = Ack
        /\ RowsOf(i) # {}

\* C2: POST /webhook answers every request body with the fixed
\* acknowledgment; no response is ever a failure response.
C2_AlwaysAck ==
    \A i \in Reqs : reqs[i].resp \in {NoResponse, Ack}

\* C3: a stored record of an event of the SALE set has type SALE, status
\* approved and the numeric coercion of the payload's value as its price
\* (0.0 when the value is absent), and a SALE event whose value coerces is
\* stored once.
C3_SaleNames == {"PURCHASE_APPROVED", "PURCHASE_COMPLETE", "APPROVED"}

C3_Coerced(b) ==
    IF b.kind = "json_object"
    THEN CASE b.value = NoValue -> 0
           [] b.value = Bare(V999) -> 999
           [] b.value = Bare(V0) -> 0
           [] b.value = Quoted(V999) -> 999
           [] b.value = Quoted(V12) -> 120
           [] OTHER -> -1
    ELSE CASE b.value = NoValue -> 0
           [] b.value = Bare(V999) -> 999
           [] OTHER -> -1

C3_SaleRecord ==
    \A i \in Reqs :
        (reqs[i].payload.event.p /\ reqs[i].payload.event.s \in C3_SaleNames)
        =>
        /\ \A k \in RowsOf(i) :
              /\ table[k].type = "SALE"
              /\ table[k].status = "approved"
              /\ table[k].price = C3_Coerced(reqs[i].body)
        /\ (reqs[i].pc = "done" /\ C3_Coerced(reqs[i].body) >= 0)
              => Cardinality(RowsOf(i)) = 1

C3_Witness ==
    \E i \in Reqs :
        /\ reqs[i].payload.event = Str("PURCHASE_COMPLETE")
        /\ reqs[i].payload.value = PStr(V999)
        /\ reqs[i].pc = "done"
        /\ \E k \in RowsOf(i) : table[k].price = 999 /\ table[k].type = "SALE"

\* C4: a CART_ABANDONMENT event stores exactly one record, with type
\* ABANDONMENT, status abandoned and price 0.0, whatever the payload's value
\* field holds.
C4_Abandonment ==
    \A i \in Reqs :
        reqs[i].payload.event = Str("CART_ABANDONMENT")
        =>
        /\ Cardinality(RowsOf(i)) <= 1
        /\ \A k \in RowsOf(i) :
              /\ table[k].type = "ABANDONMENT"
              /\ table[k].status = "abandoned"
              /\ table[k].price = 0
        /\ reqs[i].pc = "done" => Cardinality(RowsOf(i)) = 1

C4_Witness ==
    \E i \in Reqs :
        /\ reqs[i].payload.event = Str("CART_ABANDONMENT")
        /\ reqs[i].payload.value = PNum(999)
        /\ reqs[i].pc = "done"
        /\ \E k \in RowsOf(i) : table[k].price = 0

\* C5: an event name outside both known sets (a missing event and names in
\* another letter case included) adds no record: no step of such a request,
\* from its arrival to the end of its task, changes the table or what
\* GET /api/leads returns.
C5_KnownNames == {"PURCHASE_APPROVED", "PURCHASE_COMPLETE", "APPROVED",
                  "CART_ABANDONMENT"}

C5_Unrecognized(r) ==
    ~r.payload.event.p \/ r.payload.event.s \notin C5_KnownNames

C5_NoEffect ==
    [][\A i \in 1..Len(reqs') :
          (C5_Unrecognized(reqs'[i]) /\ (i > Len(reqs) \/ reqs'[i] # reqs[i]))
          => /\ table' = table
             /\ \A tie \in TieOrders : Query(table', tie) = Query(table, tie)
      ]_vars

C5_Witness ==
    \E i \in Reqs :
        /\ reqs[i].payload.event = Str("purchase_approved")
        /\ reqs[i].pc = "done" /\ reqs[i].out = "discarded"
        /\ RowsOf(i) = {} /\ table # <<>>

\* C6: the normalisation is total: a payload whose event is recognized,
\* whatever its other fields hold, is processed without failure and
\* produces a record.
C6_Total ==
    \A i \in Reqs :
        (/\ reqs[i].payload.event.p
         /\ reqs[i].payload.event.s \in C5_KnownNames
         /\ reqs[i].pc = "done")
        => reqs[i].out = "stored" /\ Cardinality(RowsOf(i)) = 1

\* C7: a recognized event that omits name, email, product or phone is still
\* stored: an omitted string field holds its placeholder, an omitted phone is
\* null, a field that is present is stored as given.
C7_Or(f, placeholder) == IF f.p THEN f.s ELSE placeholder

C7_Defaults ==
    \A i \in Reqs :
        (/\ reqs[i].payload.event.p
         /\ reqs[i].payload.event.s \in C5_KnownNames
         /\ (reqs[i].payload.event.s = "CART_ABANDONMENT"
             \/ C3_Coerced(reqs[i].body) >= 0)
         /\ reqs[i].pc = "done")
        =>
        /\ Cardinality(RowsOf(i)) = 1
        /\ \A k \in RowsOf(i) :
              /\ table[k].name = C7_Or(reqs[i].body.name_client, "Desconocido")
              /\ table[k].email = C7_Or(reqs[i].body.email_client, "no-email")
              /\ table[k].product = C7_Or(reqs[i].body.prod_name, "Producto")
              /\ table[k].phone = IF reqs[i].body.phone_number.p
                                  THEN <<reqs[i].body.phone_number.s>>
                                  ELSE <<>>

C7_Witness ==
    \E i \in Reqs :
        /\ reqs[i].body.name_client = Absent
        /\ reqs[i].body.email_client = Absent
        /\ reqs[i].body.prod_name = Absent
        /\ reqs[i].body.phone_number = Absent
        /\ reqs[i].pc = "done"
        /\ \E k \in RowsOf(i) :
              /\ table[k].name = "Desconocido"
              /\ table[k].email = "no-email"
              /\ table[k].product = "Producto"
              /\ table[k].phone = <<>>

\* C8: no deduplication, and unique ids: the rows of the table have pairwise
\* distinct ids in every state, and two requests with the same recognized
\* body whose tasks have both ended without a persistence fault have one row
\* each, with two ids.
C8_Recognized == {ScenarioA, ScenarioB, FormSale}

C8_DistinctIds ==
    /\ \A k, l \in 1..Len(table) : k # l => table[k].id # table[l].id
    /\ \A i, j \in Reqs :
          (/\ i < j
           /\ reqs[i].body = reqs[j].body
           /\ reqs[i].body \in C8_Recognized
           /\ reqs[i].pc = "done" /\ ~reqs[i].fault
           /\ reqs[j].pc = "done" /\ ~reqs[j].fault)
          => /\ Cardinality(RowsOf(i)) = 1
             /\ Cardinality(RowsOf(j)) = 1
             /\ \A k \in RowsOf(i), l \in RowsOf(j) : table[k].id # table[l].id

C8_Witness ==
    \E i, j \in Reqs :
        /\ i < j
        /\ reqs[i].body = ScenarioA /\ reqs[j].body = ScenarioA
        /\ reqs[i].pc = "done" /\ reqs[j].pc = "done"
        /\ Len(table) = 2
        /\ table[1].saved_at = table[2].saved_at
        /\ table[1].id # table[2].id

\* C9: GET /api/leads returns at most 100 records, sorted by saved_at
\* descending, which are stored records with the largest saved_at (all of
\* them when fewer than 100 are stored), and the read changes nothing in
\* storage.
C9_Set(rows) == {rows[k] : k \in 1..Len(rows)}

C9_Page(rows, page) ==
    /\ Len(page) <= 100
    /\ Len(page) = (IF Len(rows) < 100 THEN Len(rows) ELSE 100)
    /\ \A k \in 1..(Len(page) - 1) : page[k].saved_at >= page[k + 1].saved_at
    /\ C9_Set(page) \subseteq C9_Set(rows)
    /\ Cardinality(C9_Set(page)) = Len(page)
    /\ \A r \in C9_Set(rows) \ C9_Set(page) :
          r.saved_at <= page[Len(page)].saved_at

C9_GetLeads ==
    [][leads' # leads =>
          /\ C9_Page(table, leads')
          /\ table' = table /\ nextId' = nextId /\ reqs' = reqs
      ]_vars

C9_Witness ==
    /\ Len(table) > 100
    /\ Len(leads) = 100
    /\ leads[1].req > 0
    /\ leads[100].saved_at = table[1].saved_at

\* C10, as claimed: once a POST of Scenario A has been acknowledged, a GET
\* /api/leads includes its record.
C10_Record(r) ==
    /\ r.type = "SALE" /\ r.name = "Ana" /\ r.email = "a@x.com"
    /\ r.product = "Course" /\ r.price = 999 /\ r.status = "approved"

C10_AfterAck ==
    [][(/\ get_leads
        /\ \E i \in Reqs : reqs[i].body = ScenarioA /\ reqs[i].resp = Ack)
       => \E k \in 1..Len(leads') : C10_Record(leads'[k])
      ]_vars

\* C10, amended: once the background task of an acknowledged POST of
\* Scenario A has committed its row, a GET /api/leads includes the record,
\* as long as fewer than 100 other rows have a saved_at at or after its own.
C10_Newer(k) ==
    {l \in 1..Len(table) : l # k /\ table[l].saved_at >= table[k].saved_at}

C10_AfterCommit ==
    [][get_leads =>
          \A i \in Reqs : \A k \in RowsOf(i) :
              (reqs[i].body = ScenarioA /\ Cardinality(C10_Newer(k)) < PageSize)
              => /\ reqs[i].resp = Ack
                 /\ \E m \in 1..Len(leads') :
                       leads'[m].id = table[k].id /\ C10_Record(leads'[m])
      ]_vars

C10_Witness ==
    \E m \in 1..Len(leads) :
        /\ C10_Record(leads[m])
        /\ leads[m].req > 0
        /\ reqs[leads[m].req].body = ScenarioA
        /\ reqs[leads[m].req].resp = Ack

\* C11: two append calls on the file store that have both finished leave
\* one or both of their records in the document, ahead of what either had
\* read: only the record of the later writer when both calls read the
\* document before either wrote it (a lost update), both records when one
\* call read after the write of the other.
C11_Kept ==
    {c \in 1..2 : \E k \in 1..Len(file.doc) : file.doc[k] = file.calls[c].rec}

C11_LostUpdate ==
    (/\ Len(file.calls) = 2
     /\ file.calls[1].pc = "done" /\ file.calls[2].pc = "done")
    =>
    /\ Cardinality(C11_Kept) \in {1, 2}
    /\ Cardinality(C11_Kept) = 1 <=> file.calls[1].mem = file.calls[2].mem
    /\ Cardinality(C11_Kept) = 2
          => \E c, d \in 1..2 :
                /\ c # d
                /\ file.calls[d].mem = <<file.calls[c].rec>> \o file.calls[c].mem
                /\ file.doc = <<file.calls[d].rec>> \o file.calls[d].mem
    /\ Cardinality(C11_Kept) = 1
          => \E d \in 1..2 :
                file.doc = <<file.calls[d].rec>> \o file.calls[d].mem

C11_Witness ==
    /\ Len(file.calls) = 2
    /\ file.calls[1].pc = "done" /\ file.calls[2].pc = "done"
    /\ ~file.sequential
    /\ file.calls[1].mem = Limit(PriorTable, 1)
    /\ Len(file.doc) = 2
    /\ file.doc[1] = file.calls[1].rec
    /\ \A k \in 1..Len(file.doc) : file.doc[k] # file.calls[2].rec

\* C12: after N append calls on the file store, none issued while another
\* was running, list(N) is the N appended records, the last appended first,
\* whatever document the first call found.
C12_Appended(n) == [k \in 1..n |-> file.calls[n + 1 - k].rec]

C12_ReverseInsertion ==
    (/\ file.sequential
     /\ Len(file.calls) >= 1
     /\ FileRunning = {})
    => FileList(file, Len(file.calls)) = C12_Appended(Len(file.calls))

C12_Witness ==
    /\ file.sequential
    /\ Len(file.calls) = 2
    /\ FileRunning = {}
    /\ Len(file.doc) = 4
    /\ file.page = <<file.calls[2].rec, file.calls[1].rec>>
    /\ file.page[1].id > file.page[2].id

\* C13, as claimed: a configured connection string selects the relational
\* backend, its absence selects the file-document backend, and every
\* session is bound to the backend selected.
C13_Configured == environ # EnvNone /\ environ # EnvStr(EmptyStr)

C13_FileFallback ==
    /\ C13_Configured => engine.kind = "relational"
    /\ ~C13_Configured => engine.kind = "file_document"
    /\ \A s \in sessions : s.bind = engine

\* C13, amended: the backend is relational under every configuration: on
\* the configured database (postgres:// rewritten to postgresql://) when a
\* connection string is set, on the local SQLite file when it is unset or
\* empty; the session of every task and of every GET is bound to that one
\* engine, in every state.
C13_Target ==
    CASE ~C13_Configured -> Url("sqlite", "/./prueba_local.db")
      [] C13_Configured /\ environ[1].scheme = "postgres"
            -> Url("postgresql", environ[1].rest)
      [] OTHER -> environ[1]

C13_RelationalOnly ==
    /\ engine.kind = "relational"
    /\ engine.url = C13_Target
    /\ engine.dialect = C13_Target.scheme
    /\ \A s \in sessions : s.bind = engine
    /\ \A i \in Reqs :
          reqs[i].pc \in {"ready", "skip", "except", "committed"}
          => \E s \in sessions : s.owner = i
    /\ reader \in {"open", "queried"} => \E s \in sessions : s.owner = 0

C13_Witness ==
    /\ environ = EnvNone
    /\ engine.kind = "relational" /\ engine.dialect = "sqlite"
    /\ reader = "queried"
    /\ \E i \in Reqs : reqs[i].pc = "committed"
    /\ Cardinality(sessions) = 2
    /\ \A s \in sessions : s.bind = engine
    /\ Len(table) = 1 /\ Len(leads) = 1

\* C16, as claimed: in every state the number of open sessions is at most
\* the number of running background tasks, and no session is open once all
\* tasks have finished.
C16_Running == {i \in Reqs : reqs[i].pc \in {"ready", "skip", "except", "committed"}}

C16_OnlyTasks ==
    /\ Cardinality(sessions) <= Cardinality(C16_Running)
    /\ C16_Running = {} => sessions = {}

\* C16, amended: every running background task holds exactly one open
\* session, its own, on every path (sale, abandonment, unrecognized event,
\* exception), and a task that has not started or has ended holds none; a
\* GET /api/leads in progress holds one more; so the number of open
\* sessions is at most the running tasks plus the GET in progress, and no
\* session is open once all tasks and GETs have finished.
C16_Release ==
    /\ \A i \in Reqs :
          Cardinality({s \in sessions : s.owner = i})
             = (IF i \in C16_Running THEN 1 ELSE 0)
    /\ \A s \in sessions : s.owner \in C16_Running \cup {0}
    /\ Cardinality(sessions)
          <= Cardinality(C16_Running) + (IF reader = "idle" THEN 0 ELSE 1)
    /\ (C16_Running = {} /\ reader = "idle") => sessions = {}

C16_Witness ==
    /\ sessions = {}
    /\ reader = "idle"
    /\ \E i \in Reqs :
          /\ reqs[i].pc = "done" /\ reqs[i].out = "error" /\ reqs[i].fault

\* C14: in every state, every row of the table has type SALE with status
\* approved or type ABANDONMENT with status abandoned, and so has every
\* lead a task is about to insert; no row has an empty or mismatched pair.
C14_Pairs == {<<"SALE", "approved">>, <<"ABANDONMENT", "abandoned">>}

C14_TypeStatus ==
    /\ \A k \in 1..Len(table) : <<table[k].type, table[k].status>> \in C14_Pairs
    /\ \A i \in Reqs :
          reqs[i].pc = "ready"
          => <<reqs[i].lead.type, reqs[i].lead.status>> \in C14_Pairs

C14_Witness ==
    /\ Len(table) = 2
    /\ table[1].type = "SALE" /\ table[1].status = "approved"
    /\ table[2].type = "ABANDONMENT" /\ table[2].status = "abandoned"
    /\ table[2].req = 1
    /\ reqs[1].body.kind = "urlencoded"

\* C15: a task whose db.add or db.commit raised is over without effect: no
\* step of it changes the table, it goes from the except clause to its end
\* and nowhere else (it is neither raised further nor run again), and no
\* row of its request is in the table in that state or any later one.
C15_RowsAfter(i) == {k \in 1..Len(table') : table'[k].req = i}

C15_Suppressed ==
    [][\A i \in Reqs :
          /\ (reqs'[i].fault /\ reqs'[i] # reqs[i]) => table' = table
          /\ reqs'[i].fault => C15_RowsAfter(i) = {}
          /\ reqs[i].fault
                => /\ reqs'[i].fault
                   /\ reqs'[i].out = "error"
                   /\ reqs'[i].resp = Ack
                   /\ \/ reqs'[i] = reqs[i]
                      \/ reqs[i].pc = "except" /\ reqs'[i].pc = "done"
      ]_vars

C15_Witness ==
    \E i \in Reqs :
        /\ reqs[i].fault /\ reqs[i].pc = "done" /\ reqs[i].out = "error"
        /\ reqs[i].body = ScenarioA
        /\ table = PriorTable
        /\ Len(leads) = PageSize /\ \A k \in 1..Len(leads) : leads[k].req = 0

\* C17: no step, of a webhook post, of a background task or of a read,
\* removes or changes a row: every row of the table is in the table after
\* the step, with the same id and the same values in every column.
C17_Immutable ==
    [][/\ Len(table') >= Len(table)
       /\ \A k \in 1..Len(table) :
             \E l \in 1..Len(table') :
                /\ table'[l].id = table[k].id
                /\ table'[l] = table[k]
      ]_vars

C17_Witness ==
    /\ Len(table) = PriorRows + 1
    /\ SubSeq(table, 1, PriorRows) = PriorTable
    /\ table[PriorRows + 1].req = 1
    /\ reqs[1].pc = "done"
    /\ Len(leads) = PageSize /\ leads[1].req = 1

\* C18: the table loses no insert: in every state a request has one row
\* when its task has committed and none otherwise, and once all tasks have
\* ended, in whatever order their steps were taken, the table holds one row
\* for each request with a recognized event whose insert did not fault, and
\* nothing else.
C18_Recognized(r) ==
    /\ r.ret = "ack"
    /\ r.payload.event.p /\ r.payload.event.s \in C5_KnownNames

C18_Inserted == {i \in Reqs : C18_Recognized(reqs[i]) /\ ~reqs[i].fault}

C18_NoLostUpdate ==
    /\ \A i \in Reqs :
          Cardinality(RowsOf(i))
             = (IF reqs[i].pc \in {"committed", "done"} /\ i \in C18_Inserted
                THEN 1 ELSE 0)
    /\ Quiet
          => /\ Len(table) = Cardinality(C18_Inserted)
             /\ \A k \in 1..Len(table) : table[k].req \in C18_Inserted

C18_Witness ==
    /\ Len(reqs) = 2
    /\ reqs[1].pc = "committed" /\ reqs[2].pc = "committed"
    /\ Len(table) = 2
    /\ table[1].req = 2 /\ table[2].req = 1

\* C19: saved_at is the clock read inside the background task.  The clock
\* never goes back; a request has no lead when it arrives nor before its
\* acknowledgment is sent; the step that builds the lead is taken after the
\* acknowledgment and stamps it with the clock of that step; the step that
\* commits stores that stamp unchanged, at a clock that is not before it.
C19_NewRows == {k \in 1..Len(table') : k > Len(table)}

C19_SavedAt ==
    [][/\ clock' >= clock
       /\ \A i \in 1..Len(reqs') :
             IF i > Len(reqs) \/ reqs'[i].resp # Ack
             THEN reqs'[i].lead = NoLead
             ELSE reqs'[i].lead # reqs[i].lead
                  => /\ reqs[i].resp = Ack
                     /\ reqs[i].lead = NoLead
                     /\ reqs'[i].lead.saved_at = clock
                     /\ clock' = clock
       /\ \A k \in C19_NewRows :
             /\ table'[k].req \in Reqs
             /\ reqs[table'[k].req].resp = Ack
             /\ table'[k].saved_at = reqs[table'[k].req].lead.saved_at
             /\ table'[k].saved_at <= clock'
      ]_vars

\* Request 1 arrived before request 2, and its row carries a later
\* saved_at than the row of request 2: later than its own arrival.
C19_Witness ==
    \E k, l \in 1..Len(table) :
        /\ table[k].req = 1 /\ table[l].req = 2
        /\ reqs[1].resp = Ack /\ reqs[2].resp = Ack
        /\ table[k].saved_at > table[l].saved_at
        /\ table[k].saved_at <= clock

\* C20: starting from an empty table, every row belongs to one request,
\* which has been acknowledged and carries a recognized event, no request
\* has two rows, so the rows are at most as many as such requests, and the
\* columns of a row are what the body of its request gives: its fields or
\* their placeholders, the type and status of its event, its coerced value
\* for a sale and 0.0 for an abandonment.
C20_Sources ==
    {i \in Reqs : reqs[i].resp = Ack /\ reqs[i].body.event.p
                  /\ reqs[i].body.event.s \in C5_KnownNames}

C20_From(b) ==
    [type |-> IF b.event.s \in C3_SaleNames THEN "SALE" ELSE "ABANDONMENT",
     status |-> IF b.event.s \in C3_SaleNames THEN "approved" ELSE "abandoned",
     name |-> C7_Or(b.name_client, "Desconocido"),
     email |-> C7_Or(b.email_client, "no-email"),
     product |-> C7_Or(b.prod_name, "Producto"),
     phone |-> IF b.phone_number.p THEN <<b.phone_number.s>> ELSE <<>>,
     price |-> IF b.event.s \in C3_SaleNames THEN C3_Coerced(b) ELSE 0]

C20_OneRowPerWebhook ==
    /\ Len(table) <= Cardinality(C20_Sources)
    /\ \A i \in Reqs : Cardinality(RowsOf(i)) <= 1
    /\ \A k \in 1..Len(table) :
          /\ table[k].req \in C20_Sources
          /\ LET from == C20_From(reqs[table[k].req].body) IN
             /\ table[k].type = from.type /\ table[k].status = from.status
             /\ table[k].name = from.name /\ table[k].email = from.email
             /\ table[k].product = from.product
             /\ table[k].phone = from.phone /\ table[k].price = from.price

C20_Witness ==
    /\ Len(reqs) = 2
    /\ reqs[1].body = ScenarioB /\ reqs[1].pc = "done" /\ reqs[1].fault
    /\ reqs[2].body = FormSale /\ reqs[2].pc = "done"
    /\ Cardinality(C20_Sources) = 2
    /\ Len(table) = 1
    /\ table[1].req = 2 /\ table[1].name = "Eva" /\ table[1].phone = <<"555">>

====
